---- MODULE Spec2Model ----
\* A model of trichechus, the TEE application life-cycle manager
\* (sirenia/src/trichechus.rs): the connection router, the sandbox launcher,
\* the control protocol (start_session, get_logs), the syslog receiver and the
\* storage proxy with its retry loop over the shared persistence link.
EXTENDS Integers, Sequences, FiniteSets, TLC

\* ---------------------------------------------------------------- bounds
MaxStarts == 2
MaxConns == 3
MaxReqs == 2
MaxLogs == 2
MaxGets == 2

\* ------------------------------------------------------------- Option<T>
None == << >>
Some(v) == << v >>
IsSome(o) == Len(o) > 0
Unwrap(o) == o[1]

\* ------------------------------------------------------------ HashMap<K,V>
EmptyMap == << >>
MapInsert(m, k, v) == [x \in (DOMAIN m) \cup {k} |-> IF x = k THEN v ELSE m[x]]
MapRemove(m, k) == [x \in (DOMAIN m) \ {k} |-> m[x]]
MapGet(m, k) == IF k \in DOMAIN m THEN Some(m[k]) ELSE None

\* --------------------------------------------------------- TransportType
\* `port as u16` keeps the low 16 bits of the u32 port of the protocol.
U16 == 65536
Ports == {1, 2}
BigPort == U16 + 1
SessionPorts == Ports \cup {BigPort}
\* The port the broker's control connection uses.
DEFAULT_CLIENT_PORT == CHOOSE p \in Ports : \A q \in Ports : p <= q
Endpoint(fam, port) == [fam |-> fam, addr |-> "peer", port |-> port]
UnixEndpoint == [fam |-> "Unix", addr |-> "peer", port |-> 0]
\* The identifiers an incoming connection can carry.
ConnectionIds == {Endpoint(f, p) : f \in {"Ip", "Vsock"}, p \in Ports} \cup {UnixEndpoint}

\* TransportType::get_port: only the IP and vsock families carry a port.
get_port(id) ==
    IF id.fam \in {"Ip", "Vsock"} THEN [ok |-> TRUE, port |-> id.port]
    ELSE [ok |-> FALSE, port |-> 0]

\* Any other family panics; no control session has one, since a control
\* session is registered only for a connection whose get_port is Ok.
port_to_transport_type(transport_type, port) ==
    IF transport_type.fam = "Ip" THEN [transport_type EXCEPT !.port = port % U16]
    ELSE [transport_type EXCEPT !.port = port]

\* ------------------------------------------------------------ AppManifest
StorageParameters(scope, domain, key) ==
    [scope |-> scope, domain |-> domain, encryption_key_version |-> key]
AppManifestEntry(name, sandbox, storage) ==
    [app_name |-> name, path |-> name, sandbox_type |-> sandbox, storage_parameters |-> storage]
app_manifest ==
    [A |-> AppManifestEntry("A", "Container", Some(StorageParameters("Test", "a", None))),
     B |-> AppManifestEntry("B", "DeveloperEnvironment", Some(StorageParameters("Test", "b", Some(1)))),
     C |-> AppManifestEntry("C", "Container", None),
     V |-> AppManifestEntry("V", "VirtualMachine", None)]
\* "X" is an identifier the manifest does not know.
AppIds == (DOMAIN app_manifest) \cup {"X"}

get_app_manifest_entry(app_id) ==
    IF app_id \in DOMAIN app_manifest
    THEN [ok |-> TRUE, entry |-> Some(app_manifest[app_id])]
    ELSE [ok |-> FALSE, entry |-> None]

\* --------------------------------------------------------- spawn_tee_app
\* What the environment answers to the launch: sandbox creation, creation of
\* the internal transport pair, start of the process.
SpawnEnvs == {"ok", "NewSandbox", "NewTransport", "RunSandbox"}
SpawnResult(app_id, entry, ok, err, created, app_info) ==
    [app_id |-> app_id, entry |-> entry, ok |-> ok, err |-> err, created |-> created,
     app_info |-> app_info]

\* Mutant: the VirtualMachine kind launched like a container.
spawn_tee_app_VmAsContainer(app_id, env) ==
    LET looked == get_app_manifest_entry(app_id)
        Failed(err, created) == SpawnResult(app_id, looked.entry, FALSE, err, created, None)
    IN  IF ~looked.ok THEN Failed("AppManifest", {})
        ELSE IF env = "NewSandbox" THEN Failed("NewSandbox", {})
        ELSE IF env = "NewTransport" THEN Failed("NewTransport", {"sandbox"})
        ELSE IF env = "RunSandbox" THEN Failed("RunSandbox", {"sandbox", "transport"})
        ELSE SpawnResult(app_id, looked.entry, TRUE, "none",
                         {"sandbox", "transport", "process"}, looked.entry)

spawn_tee_app(app_id, env) ==
    LET looked == get_app_manifest_entry(app_id)
        Failed(err, created) == SpawnResult(app_id, looked.entry, FALSE, err, created, None)
    IN  IF ~looked.ok THEN Failed("AppManifest", {})
        ELSE LET app_info == Unwrap(looked.entry) IN
             IF app_info.sandbox_type = "VirtualMachine"
             THEN Failed("SandboxTypeNotImplemented", {})
             ELSE IF env = "NewSandbox" THEN Failed("NewSandbox", {})
             ELSE IF env = "NewTransport" THEN Failed("NewTransport", {"sandbox"})
             ELSE IF env = "RunSandbox" THEN Failed("RunSandbox", {"sandbox", "transport"})
             ELSE SpawnResult(app_id, looked.entry, TRUE, "none",
                              {"sandbox", "transport", "process"}, Some(app_info))

\* ------------------------------------------------------- TrichechusState
\* The fields of the registry that the handlers read and write.
TrichechusState(ep, pa, ra, lq, pe) ==
    [expected_port |-> ep, pending_apps |-> pa, running_apps |-> ra,
     log_queue |-> lq, persistence |-> pe]

\* A TeeApp owns its sandbox and a copy of its manifest entry; the serial
\* number stands for the identity of the Rc<RefCell<TeeApp>> allocation.
TeeApp(serial, app_info) == [serial |-> serial, app_info |-> app_info]

\* ------------------------------------------------- DugongConnectionHandler
\* The Option<Box<dyn Mutator>> a handler returns: nothing, a control-protocol
\* dispatcher or a storage-protocol dispatcher.
NoMutator == [kind |-> "none", transport_type |-> None, tee_app |-> None]
ControlMutator(id) == [kind |-> "control", transport_type |-> Some(id), tee_app |-> None]
StorageMutator(app) == [kind |-> "storage", transport_type |-> None, tee_app |-> Some(app)]

Handled(state, mutator, reservation, spawn) ==
    [state |-> state, mutator |-> mutator, reservation |-> reservation, spawn |-> spawn]

\* Mutant: a failed launch drops every pending reservation.
connect_tee_app_ClearOnFailure(state, app_id, id, env, serial) ==
    LET spawned == spawn_tee_app(app_id, env) IN
    IF spawned.ok
    THEN LET tee_app == TeeApp(serial, Unwrap(spawned.app_info)) IN
         Handled([state EXCEPT !.running_apps = MapInsert(@, id, tee_app)],
                 StorageMutator(tee_app), Some(app_id), Some(spawned))
    ELSE Handled([state EXCEPT !.pending_apps = EmptyMap], NoMutator,
                 Some(app_id), Some(spawned))

\* Mutant: a failed launch removes the running entry of the endpoint.
connect_tee_app_RemoveOnFailure(state, app_id, id, env, serial) ==
    LET spawned == spawn_tee_app(app_id, env) IN
    IF spawned.ok
    THEN LET tee_app == TeeApp(serial, Unwrap(spawned.app_info)) IN
         Handled([state EXCEPT !.running_apps = MapInsert(@, id, tee_app)],
                 StorageMutator(tee_app), Some(app_id), Some(spawned))
    ELSE Handled([state EXCEPT !.running_apps = MapRemove(@, id)], NoMutator,
                 Some(app_id), Some(spawned))

connect_tee_app(state, app_id, id, env, serial) ==
    LET spawned == spawn_tee_app(app_id, env) IN
    IF spawned.ok
    THEN LET tee_app == TeeApp(serial, Unwrap(spawned.app_info)) IN
         Handled([state EXCEPT !.running_apps = MapInsert(@, id, tee_app)],
                 StorageMutator(tee_app), Some(app_id), Some(spawned))
    ELSE Handled(state, NoMutator, Some(app_id), Some(spawned))

\* Mutant: the control-port check made before the reservation lookup.
handle_incoming_connection_ControlFirst(state, id, env, serial) ==
    LET port == get_port(id)
        reservation == MapGet(state.pending_apps, id)
        removed == [state EXCEPT !.pending_apps = MapRemove(@, id)]
    IN  IF port.ok /\ port.port = state.expected_port
        THEN Handled(state, ControlMutator(id), None, None)
        ELSE IF IsSome(reservation)
        THEN connect_tee_app(removed, Unwrap(reservation), id, env, serial)
        ELSE Handled(removed, NoMutator, None, None)

\* Mutant: the reservation looked up with get, and removed only once the
\* launch has succeeded.
handle_incoming_connection_KeepOnFailure(state, id, env, serial) ==
    LET reservation == MapGet(state.pending_apps, id)
        removed == [state EXCEPT !.pending_apps = MapRemove(@, id)]
    IN  IF IsSome(reservation)
        THEN LET launched == connect_tee_app(removed, Unwrap(reservation), id, env, serial) IN
             IF launched.mutator.kind = "storage" THEN launched
             ELSE [launched EXCEPT !.state = state]
        ELSE LET port == get_port(id) IN
             IF port.ok /\ port.port = state.expected_port
             THEN Handled(removed, ControlMutator(id), None, None)
             ELSE Handled(removed, NoMutator, None, None)

\* Mutant: any connection that carries a port accepted as a control connection.
handle_incoming_connection_AnyPort(state, id, env, serial) ==
    LET reservation == MapGet(state.pending_apps, id)
        removed == [state EXCEPT !.pending_apps = MapRemove(@, id)]
    IN  IF IsSome(reservation)
        THEN connect_tee_app(removed, Unwrap(reservation), id, env, serial)
        ELSE IF get_port(id).ok
        THEN Handled(removed, ControlMutator(id), None, None)
        ELSE Handled(removed, NoMutator, None, None)

\* Mutant: the reservation read with get and left in the map.
handle_incoming_connection_Peek(state, id, env, serial) ==
    LET reservation == MapGet(state.pending_apps, id) IN
    IF IsSome(reservation)
    THEN connect_tee_app(state, Unwrap(reservation), id, env, serial)
    ELSE LET port == get_port(id) IN
         IF port.ok /\ port.port = state.expected_port
         THEN Handled(state, ControlMutator(id), None, None)
         ELSE Handled(state, NoMutator, None, None)

handle_incoming_connection(state, id, env, serial) ==
    LET expected_port == state.expected_port
        reservation == MapGet(state.pending_apps, id)
        removed == [state EXCEPT !.pending_apps = MapRemove(@, id)]
    IN  IF IsSome(reservation)
        THEN connect_tee_app(removed, Unwrap(reservation), id, env, serial)
        ELSE LET port == get_port(id) IN
             IF port.ok /\ port.port = expected_port
             THEN Handled(removed, ControlMutator(id), None, None)
             ELSE Handled(removed, NoMutator, None, None)

\* ---------------------------------------------------- TrichechusServerImpl
\* Mutant: the reservation made only for an application the manifest knows.
start_session_Validated(state, transport_type, app_id, port_number) ==
    IF get_app_manifest_entry(app_id).ok
    THEN [state |-> [state EXCEPT !.pending_apps =
                        MapInsert(@, port_to_transport_type(transport_type, port_number), app_id)],
          ret |-> [ok |-> TRUE, value |-> << >>]]
    ELSE [state |-> state, ret |-> [ok |-> FALSE, value |-> << >>]]

start_session(state, transport_type, app_id, port_number) ==
    [state |-> [state EXCEPT !.pending_apps =
                    MapInsert(@, port_to_transport_type(transport_type, port_number), app_id)],
     ret |-> [ok |-> TRUE, value |-> << >>]]

\* Mutant: the queue copied out instead of swapped for an empty one.
get_logs_Clone(state) ==
    [state |-> state, ret |-> [ok |-> TRUE, value |-> state.log_queue]]

get_logs(state) ==
    LET replacement == << >> IN
    [state |-> [state EXCEPT !.log_queue = replacement],
     ret |-> [ok |-> TRUE, value |-> state.log_queue]]

\* SyslogReceiverMut::receive
receive(state, data) == [state EXCEPT !.log_queue = Append(@, data)]

\* ------------------------------------------------------------ StorageRpc
\* Results: StdResult<T, ()> towards the application, StdResult<T, rpc::Error>
\* from the persistence service. A value is a tuple: (status) for persist,
\* (status, bytes) for retrieve, () for the unit error.
Ok(v) == [ok |-> TRUE, value |-> v]
Err == [ok |-> FALSE, value |-> << >>]
RpcError == [ok |-> FALSE, value |-> << "rpc::Error" >>]
NoRet == [ok |-> FALSE, value |-> << "no return" >>]

RecordIds == {"k"}
Blob == << 1, 2, 3 >>
Stored == << 7 >>
\* What the persistence service can answer to one invocation.
RemoteResults(method) ==
    IF method = "persist"
    THEN {RpcError, Ok(<< "Success" >>), Ok(<< "Failure" >>)}
    ELSE {RpcError, Ok(<< "Success", Stored >>), Ok(<< "IdNotFound", << >> >>)}

\* The closures of read_data and write_data: the invocation they make on the
\* Cronista they are handed.
Callback(method, id, data) == [method |-> method, id |-> id, data |-> data]

\* Mutant: the scope and domain of the first manifest entry, whoever asks.
Invocation_FirstEntry(x, via, params, cb) ==
    [x |-> x, via |-> via, method |-> cb.method,
     scope |-> Unwrap(app_manifest["A"].storage_parameters).scope,
     domain |-> Unwrap(app_manifest["A"].storage_parameters).domain,
     id |-> cb.id, data |-> cb.data]

Invocation(x, via, params, cb) ==
    [x |-> x, via |-> via, method |-> cb.method, scope |-> params.scope,
     domain |-> params.domain, id |-> cb.id, data |-> cb.data]

\* The locals of one run of conditionally_use_storage_encryption: the
\* persistence cell and the number of live shared borrows of it, the
\* invocations and connection attempts made so far (and the round x of each
\* attempt), and the control state.
Locals(persistence) ==
    [persistence |-> persistence, borrows |-> 0, calls |-> << >>, connects |-> 0,
     connectRounds |-> << >>, ctl |-> "run", ret |-> NoRet]

\* RefCell::borrow_mut panics while a shared borrow of the cell is alive.
drop_persistence(st) ==
    IF st.borrows > 0 THEN [st EXCEPT !.ctl = "panic"]
    ELSE [st EXCEPT !.persistence = None]

check_persistence(st, connRes) ==
    IF IsSome(st.persistence) THEN [st |-> st, ok |-> TRUE]
    ELSE LET n == st.connects + 1 IN
         IF connRes[n]
         THEN [st |-> [st EXCEPT !.connects = n, !.persistence = Some("CronistaClient")],
               ok |-> TRUE]
         ELSE [st |-> [st EXCEPT !.connects = n], ok |-> FALSE]

\* The Cronista handed to the closure: the encrypting adapter around the link
\* when the parameters name a key version, the link itself otherwise.
\* Mutant: the link handed to the closure whatever the parameters say.
Cronista_Direct(params) == "CronistaClient"

Cronista(params) ==
    IF IsSome(params.encryption_key_version) THEN "StorageEncryption" ELSE "CronistaClient"

\* Mutant: a failed invocation is retried within the round, on a fresh link.
Round_Eager(st, x, params, cb, opRes, connRes) ==
    IF st.ctl # "run" THEN st
    ELSE LET Invoke(s) ==
               LET held == [s EXCEPT !.calls = Append(@, Invocation(x, Cronista(params), params, cb))]
                   ret == opRes[IF Len(held.calls) > 2 THEN 2 ELSE Len(held.calls)]
               IN  IF ret.ok THEN [held EXCEPT !.ctl = "ret", !.ret = Ok(ret.value)]
                   ELSE held
             Ensure(s) ==
               LET checked == check_persistence([s EXCEPT !.persistence = None], connRes)
                   after == [checked.st EXCEPT !.connectRounds = Append(@, x)]
               IN  IF checked.ok THEN after
                   ELSE [after EXCEPT !.ctl = "ret", !.ret = Err]
         IN  IF IsSome(st.persistence)
             THEN LET first == Invoke(st) IN
                  IF first.ctl # "run" THEN first
                  ELSE LET fresh == Ensure(first) IN
                       IF fresh.ctl # "run" THEN fresh ELSE Invoke(fresh)
             ELSE Ensure(st)

\* Mutant: a failed connection attempt does not end the request.
Round_IgnoreConnectFailure(st, x, params, cb, opRes, connRes) ==
    IF st.ctl # "run" THEN st
    ELSE LET tried ==
               IF IsSome(st.persistence)
               THEN LET held == [st EXCEPT !.borrows = @ + 1,
                                           !.calls = Append(@, Invocation(x, Cronista(params), params, cb))]
                        ret == opRes[Len(held.calls)]
                    IN  IF ret.ok
                        THEN [held EXCEPT !.ctl = "ret", !.ret = Ok(ret.value), !.borrows = @ - 1]
                        ELSE drop_persistence(held)
               ELSE st
         IN  IF tried.ctl # "run" THEN tried
             ELSE LET checked == check_persistence(tried, connRes) IN
                  IF checked.st.connects > tried.connects
                  THEN [checked.st EXCEPT !.connectRounds = Append(@, x)]
                  ELSE checked.st

\* One iteration of `for x in 0..=1`.
Round(st, x, params, cb, opRes, connRes) ==
    IF st.ctl # "run" THEN st
    ELSE LET tried ==
               IF IsSome(st.persistence)
               THEN \* the Ref taken by the `if let` lives to the end of its body
                    LET held == [st EXCEPT !.borrows = @ + 1,
                                           !.calls = Append(@, Invocation(x, Cronista(params), params, cb))]
                        ret == opRes[Len(held.calls)]
                    IN  IF ret.ok
                        THEN [held EXCEPT !.ctl = "ret", !.ret = Ok(ret.value), !.borrows = @ - 1]
                        ELSE LET dropped == drop_persistence(held) IN
                             IF dropped.ctl = "panic" THEN dropped
                             ELSE IF x = 1 THEN [dropped EXCEPT !.ctl = "break", !.borrows = @ - 1]
                             ELSE [dropped EXCEPT !.borrows = @ - 1]
               ELSE st
         IN  IF tried.ctl # "run" THEN tried
             ELSE LET checked == check_persistence(tried, connRes)
                      after == IF checked.st.connects > tried.connects
                               THEN [checked.st EXCEPT !.connectRounds = Append(@, x)]
                               ELSE checked.st
                  IN  IF checked.ok THEN after
                      ELSE [after EXCEPT !.ctl = "ret", !.ret = Err]

\* The loop `for x in 0..=1` and the Err(()) that follows it.
Rounds(params, cb, persistence, opRes, connRes) ==
    LET first == Round(Locals(persistence), 0, params, cb, opRes, connRes)
        second == Round(first, 1, params, cb, opRes, connRes)
    IN  IF second.ctl \in {"run", "break"}
        THEN [second EXCEPT !.ctl = "ret", !.ret = Err]
        ELSE second

\* Mutant: the link ensured before the storage parameters are looked at.
conditionally_use_storage_encryption_LinkFirst(tee_app, cb, persistence, opRes, connRes) ==
    LET app_info == tee_app.app_info
        checked == check_persistence(Locals(persistence), connRes)
    IN  IF ~IsSome(app_info.storage_parameters)
        THEN [checked.st EXCEPT !.ctl = "ret", !.ret = Err]
        ELSE Rounds(Unwrap(app_info.storage_parameters), cb, persistence, opRes, connRes)

conditionally_use_storage_encryption(tee_app, cb, persistence, opRes, connRes) ==
    LET app_info == tee_app.app_info IN
    IF ~IsSome(app_info.storage_parameters)
    THEN [Locals(persistence) EXCEPT !.ctl = "ret", !.ret = Err]
    ELSE Rounds(Unwrap(app_info.storage_parameters), cb, persistence, opRes, connRes)

read_data(tee_app, id, persistence, opRes, connRes) ==
    conditionally_use_storage_encryption(
        tee_app, Callback("retrieve", id, << >>), persistence, opRes, connRes)

\* Mutant: the closure persists an empty record instead of the data.
write_data_NoData(tee_app, id, data, persistence, opRes, connRes) ==
    conditionally_use_storage_encryption(
        tee_app, Callback("persist", id, << >>), persistence, opRes, connRes)

write_data(tee_app, id, data, persistence, opRes, connRes) ==
    conditionally_use_storage_encryption(
        tee_app, Callback("persist", id, data), persistence, opRes, connRes)

\* ----------------------------------------------------------------- state
VARIABLES
    expected_port,      \* TrichechusState.expected_port
    pending_apps,       \* TrichechusState.pending_apps
    running_apps,       \* TrichechusState.running_apps
    log_queue,          \* TrichechusState.log_queue
    persistence,        \* TrichechusState.persistence
    control_sessions,   \* the control dispatchers the event loop holds, by transport type
    storage_sessions,   \* the storage dispatchers the event loop holds, by TeeApp
    serial,             \* number of TeeApps created so far
    panicked,           \* the manager process has panicked
    last,               \* what the most recent handler was given, did and returned
    arrived,            \* every log record received so far, in order
    delivered,          \* every log record returned by get_logs so far, in order
    nStarts, nConns, nReqs, nGets,
    nLaunches           \* number of calls of spawn_tee_app so far

vars == << expected_port, pending_apps, running_apps, log_queue, persistence,
           control_sessions, storage_sessions, serial, panicked, last,
           arrived, delivered, nStarts, nConns, nReqs, nGets, nLaunches >>

registry == << expected_port, pending_apps, running_apps, log_queue, persistence >>
sessions == << control_sessions, storage_sessions, serial >>
logHistory == << arrived, delivered >>
counters == << nStarts, nConns, nReqs, nGets >>

State == TrichechusState(expected_port, pending_apps, running_apps, log_queue, persistence)

LogRecords == {"r1", "r2"}
Scripts(S) == [1..2 -> S]

NoLast ==
    [op |-> "none", session |-> None, app_id |-> None, port_number |-> None,
     id |-> None, reservation |-> None, spawn |-> None, mutator |-> NoMutator,
     tee_app |-> None, cb |-> None, link |-> None, opRes |-> << >>, connRes |-> << >>,
     calls |-> << >>, connects |-> 0, connectRounds |-> << >>, ret |-> NoRet,
     panic |-> FALSE]

\* TrichechusState::new.
Init ==
    /\ expected_port = DEFAULT_CLIENT_PORT
    /\ pending_apps = EmptyMap
    /\ running_apps = EmptyMap
    /\ log_queue = << >>
    /\ persistence = None
    /\ control_sessions = {}
    /\ storage_sessions = {}
    /\ serial = 0
    /\ panicked = FALSE
    /\ last = NoLast
    /\ arrived = << >>
    /\ delivered = << >>
    /\ nStarts = 0 /\ nConns = 0 /\ nReqs = 0 /\ nGets = 0
    /\ nLaunches = 0

\* main: with a cronista URI on the command line the link is connected before
\* the event loop starts.
ConnectCronista ==
    /\ last.op = "none"
    /\ persistence = None
    /\ persistence' = Some("CronistaClient")
    /\ last' = [NoLast EXCEPT !.op = "main"]
    /\ UNCHANGED << expected_port, pending_apps, running_apps, log_queue, sessions, nLaunches,
                    panicked, logHistory, counters >>

SetRegistry(state) ==
    /\ expected_port' = state.expected_port
    /\ pending_apps' = state.pending_apps
    /\ running_apps' = state.running_apps
    /\ log_queue' = state.log_queue
    /\ persistence' = state.persistence

\* The listening transport hands a new connection to the handler and the event
\* loop applies the mutator it returns.
Connection(id, env) ==
    /\ ~panicked
    /\ nConns < MaxConns
    /\ LET h == handle_incoming_connection(State, id, env, serial) IN
       /\ SetRegistry(h.state)
       /\ control_sessions' = IF h.mutator.kind = "control"
                              THEN control_sessions \cup {Unwrap(h.mutator.transport_type)}
                              ELSE control_sessions
       /\ storage_sessions' = IF h.mutator.kind = "storage"
                              THEN storage_sessions \cup {Unwrap(h.mutator.tee_app)}
                              ELSE storage_sessions
       /\ serial' = IF h.mutator.kind = "storage" THEN serial + 1 ELSE serial
       /\ nLaunches' = IF IsSome(h.spawn) THEN nLaunches + 1 ELSE nLaunches
       /\ last' = [NoLast EXCEPT !.op = "connection", !.id = Some(id),
                                 !.reservation = h.reservation, !.spawn = h.spawn,
                                 !.mutator = h.mutator]
    /\ nConns' = nConns + 1
    /\ UNCHANGED << panicked, logHistory, nStarts, nReqs, nGets >>

StartSession(transport_type, app_id, port_number) ==
    /\ ~panicked
    /\ nStarts < MaxStarts
    /\ transport_type \in control_sessions
    /\ LET r == start_session(State, transport_type, app_id, port_number) IN
       /\ SetRegistry(r.state)
       /\ last' = [NoLast EXCEPT !.op = "start_session", !.session = Some(transport_type),
                                 !.app_id = Some(app_id), !.port_number = Some(port_number),
                                 !.ret = r.ret]
    /\ nStarts' = nStarts + 1
    /\ UNCHANGED << sessions, nLaunches, panicked, logHistory, nConns, nReqs, nGets >>

GetLogs(transport_type) ==
    /\ ~panicked
    /\ nGets < MaxGets
    /\ transport_type \in control_sessions
    /\ LET r == get_logs(State) IN
       /\ SetRegistry(r.state)
       /\ delivered' = delivered \o r.ret.value
       /\ last' = [NoLast EXCEPT !.op = "get_logs", !.session = Some(transport_type),
                                 !.ret = r.ret]
    /\ nGets' = nGets + 1
    /\ UNCHANGED << sessions, nLaunches, panicked, arrived, nStarts, nConns, nReqs >>

Receive(data) ==
    /\ ~panicked
    /\ Len(arrived) < MaxLogs
    /\ SetRegistry(receive(State, data))
    /\ arrived' = Append(arrived, data)
    /\ last' = [NoLast EXCEPT !.op = "receive"]
    /\ UNCHANGED << sessions, nLaunches, panicked, delivered, counters >>

\* The answers the persistence service would give are scripted per request;
\* the answers the handler never asks for are immaterial and fixed to success.
Unasked(cb, opRes, connRes, st) ==
    /\ \A i \in DOMAIN opRes : i > Len(st.calls) => opRes[i].ok /\ opRes[i].value[1] = "Success"
    /\ \A i \in DOMAIN connRes : i > st.connects => connRes[i]

\* The outcome of a storage request: the link as the handler left it, the
\* value returned, or the panic that ended the process.
Served(op, tee_app, cb, opRes, connRes, st) ==
    /\ Unasked(cb, opRes, connRes, st)
    /\ persistence' = st.persistence
    /\ panicked' = (st.ctl = "panic")
    /\ last' = [NoLast EXCEPT !.op = op, !.tee_app = Some(tee_app), !.cb = Some(cb),
                              !.link = persistence, !.opRes = opRes, !.connRes = connRes,
                              !.calls = st.calls, !.connects = st.connects,
                              !.connectRounds = st.connectRounds,
                              !.ret = st.ret, !.panic = (st.ctl = "panic")]
    /\ nReqs' = nReqs + 1
    /\ UNCHANGED << expected_port, pending_apps, running_apps, log_queue, sessions, nLaunches,
                    logHistory, nStarts, nConns, nGets >>

ReadData(tee_app, id, opRes, connRes) ==
    /\ ~panicked
    /\ nReqs < MaxReqs
    /\ tee_app \in storage_sessions
    /\ Served("read_data", tee_app, Callback("retrieve", id, << >>), opRes, connRes,
              read_data(tee_app, id, persistence, opRes, connRes))

WriteData(tee_app, id, data, opRes, connRes) ==
    /\ ~panicked
    /\ nReqs < MaxReqs
    /\ tee_app \in storage_sessions
    /\ Served("write_data", tee_app, Callback("persist", id, data), opRes, connRes,
              write_data(tee_app, id, data, persistence, opRes, connRes))

Next ==
    \/ ConnectCronista
    \/ \E id \in ConnectionIds, env \in SpawnEnvs : Connection(id, env)
    \/ \E t \in control_sessions, a \in AppIds, p \in SessionPorts : StartSession(t, a, p)
    \/ \E t \in control_sessions : GetLogs(t)
    \/ \E d \in LogRecords : Receive(d)
    \/ \E app \in storage_sessions, id \in RecordIds,
          opRes \in Scripts(RemoteResults("retrieve")), connRes \in Scripts(BOOLEAN) :
            ReadData(app, id, opRes, connRes)
    \/ \E app \in storage_sessions, id \in RecordIds,
          opRes \in Scripts(RemoteResults("persist")), connRes \in Scripts(BOOLEAN) :
            WriteData(app, id, Blob, opRes, connRes)

Spec == Init /\ [][Next]_vars


\* The manager with the broker's reservations and the incoming connections only.
NextRouter ==
    \/ \E id \in ConnectionIds, env \in SpawnEnvs : Connection(id, env)
    \/ \E t \in control_sessions, a \in AppIds, p \in SessionPorts : StartSession(t, a, p)

SpecRouter == Init /\ [][NextRouter]_vars

\* The manager with the syslog receiver and the broker draining the logs.
NextLogs ==
    \/ \E id \in ConnectionIds, env \in SpawnEnvs : Connection(id, env)
    \/ \E t \in control_sessions : GetLogs(t)
    \/ \E d \in LogRecords : Receive(d)

SpecLogs == Init /\ [][NextLogs]_vars

\* The manager serving storage requests of the applications it launched, with
\* a broker that makes at most MaxStorageStarts reservations and at most
\* MaxStorageConns connections arriving.
MaxStorageStarts == 1
MaxStorageConns == 2

NextStorage ==
    \/ ConnectCronista
    \/ \E id \in ConnectionIds, env \in SpawnEnvs :
          nConns < MaxStorageConns /\ Connection(id, env)
    \/ \E t \in control_sessions, a \in AppIds, p \in SessionPorts :
          nStarts < MaxStorageStarts /\ StartSession(t, a, p)
    \/ \E app \in storage_sessions, id \in RecordIds,
          opRes \in Scripts(RemoteResults("retrieve")), connRes \in Scripts(BOOLEAN) :
            ReadData(app, id, opRes, connRes)
    \/ \E app \in storage_sessions, id \in RecordIds,
          opRes \in Scripts(RemoteResults("persist")), connRes \in Scripts(BOOLEAN) :
            WriteData(app, id, Blob, opRes, connRes)

SpecStorage == Init /\ [][NextStorage]_vars

\* The manager with several applications launched and sharing the link: a
\* broker on an IP control session that reserves the storing applications only,
\* and launches that succeed.
MaxSharedStarts == 2
MaxSharedConns == 3
SharedApps == {"A", "B"}
SharedIds == {Endpoint("Ip", p) : p \in Ports}

NextShared ==
    \/ ConnectCronista
    \/ \E id \in SharedIds :
          nConns < MaxSharedConns /\ Connection(id, "ok")
    \/ \E t \in control_sessions, a \in SharedApps, p \in Ports :
          nStarts < MaxSharedStarts /\ StartSession(t, a, p)
    \/ \E app \in storage_sessions, id \in RecordIds,
          opRes \in Scripts(RemoteResults("retrieve")), connRes \in Scripts(BOOLEAN) :
            ReadData(app, id, opRes, connRes)
    \/ \E app \in storage_sessions, id \in RecordIds,
          opRes \in Scripts(RemoteResults("persist")), connRes \in Scripts(BOOLEAN) :
            WriteData(app, id, Blob, opRes, connRes)

SpecShared == Init /\ [][NextShared]_vars

\* ================================================================ claims
IsConnection == last.op = "connection"
IsRequest == last.op \in {"read_data", "write_data"}
ControlPort(id) == get_port(id).ok /\ get_port(id).port = expected_port
Params(l) == Unwrap(l.tee_app).app_info.storage_parameters

\* C1: routing is a strict priority. A connection whose Endpoint is in pending
\* is handled as an application connection (the reservation is consumed and a
\* launch attempted, no control session registered) even when its port is the
\* expected control port; a control session is registered only for an Endpoint
\* that is not in pending and whose port is the expected control port; in every
\* other case no session is registered.
C1_StrictPriority ==
    [][ nConns' = nConns + 1 =>
          LET id == Unwrap(last'.id) IN
          IF id \in DOMAIN pending_apps
          THEN /\ last'.reservation = Some(pending_apps[id])
               /\ id \notin DOMAIN pending_apps'
               /\ IsSome(last'.spawn)
               /\ last'.mutator.kind \in {"storage", "none"}
               /\ control_sessions' = control_sessions
          ELSE IF ControlPort(id)
          THEN /\ last'.mutator = ControlMutator(id)
               /\ control_sessions' = control_sessions \cup {id}
               /\ storage_sessions' = storage_sessions
               /\ ~IsSome(last'.spawn)
          ELSE /\ last'.mutator = NoMutator
               /\ control_sessions' = control_sessions
               /\ storage_sessions' = storage_sessions
               /\ ~IsSome(last'.spawn)
      ]_vars

\* A reserved connection on the expected control port has been launched.
C1_Witness ==
    /\ IsConnection
    /\ IsSome(last.reservation)
    /\ ControlPort(Unwrap(last.id))
    /\ last.mutator.kind = "storage"

\* C2: when a connection arrives whose Endpoint matches a reservation made by
\* start_session(id, port), exactly that one reservation leaves pending, the
\* launch is attempted with id and the manifest entry of id, and the
\* reservation is gone whether the launch succeeds or fails.
C2_ReservationConsumed ==
    [][ (nConns' = nConns + 1 /\ Unwrap(last'.id) \in DOMAIN pending_apps) =>
          LET id == Unwrap(last'.id)
              app_id == pending_apps[id]
          IN  /\ pending_apps' = MapRemove(pending_apps, id)
              /\ IsSome(last'.spawn)
              /\ Unwrap(last'.spawn).app_id = app_id
              /\ Unwrap(last'.spawn).entry = get_app_manifest_entry(app_id).entry
              /\ last'.mutator.kind = "storage" =>
                    Unwrap(last'.mutator.tee_app).app_info = app_manifest[app_id]
      ]_vars

\* A reservation of a known application was consumed by a launch that failed.
C2_Witness ==
    /\ IsConnection
    /\ IsSome(last.reservation)
    /\ Unwrap(last.spawn).err = "RunSandbox"
    /\ Unwrap(last.id) \notin DOMAIN pending_apps

\* C3: a transport failure of retrieve/persist never terminates the manager:
\* the invalidation of the link completes and the request returns a result or
\* the opaque failure.
C3_FailureRecoverable ==
    (IsRequest /\ \E i \in DOMAIN last.calls : ~last.opRes[i].ok) =>
        /\ ~last.panic
        /\ ~panicked
        /\ (last.ret.ok \/ last.ret = Err)

\* C4: for an application with storage parameters, if the first invocation
\* fails, the link can be established and the operation succeeds when invoked
\* again, the request returns that successful result.
C4_RetrySucceeds ==
    (/\ IsRequest
     /\ IsSome(Params(last))
     /\ ~last.opRes[1].ok
     /\ \A i \in DOMAIN last.connRes : last.connRes[i]
     /\ last.opRes[2].ok) =>
        last.ret = Ok(last.opRes[2].value)

\* C5: if every invocation a request makes fails, the request returns the
\* failure and the link is absent when it returns.
C5_TwoFailuresLeaveNoLink ==
    (/\ IsRequest
     /\ Len(last.calls) > 0
     /\ \A i \in DOMAIN last.calls : ~last.opRes[i].ok) =>
        /\ ~last.panic
        /\ last.ret = Err
        /\ persistence = None

\* C6: every record received is returned by exactly one get_logs, the first
\* after its arrival, in arrival order; the queue is empty after each get_logs;
\* a get_logs right after another returns the empty list.
C6_LogsExactlyOnce ==
    /\ [](/\ arrived = delivered \o log_queue
          /\ last.op = "get_logs" => log_queue = << >>)
    /\ [][ nGets' = nGets + 1 =>
             /\ last'.ret = Ok(log_queue)
             /\ last.op = "get_logs" => last'.ret.value = << >>
         ]_vars

\* The second get_logs returned exactly the record that arrived after the first.
C6_Witness ==
    /\ last.op = "get_logs"
    /\ nGets = 2
    /\ Len(delivered) = 2
    /\ Len(last.ret.value) = 1

\* C7: a connection whose Endpoint is not in pending and whose port is not the
\* expected control port, or that has no port, is dropped: no session is
\* registered, no launch attempted, and pending, running, the log queue and the
\* persistence link are unchanged.
C7_UnexpectedDropped ==
    [][ (/\ nConns' = nConns + 1
         /\ Unwrap(last'.id) \notin DOMAIN pending_apps
         /\ ~ControlPort(Unwrap(last'.id))) =>
          /\ last'.mutator = NoMutator
          /\ ~IsSome(last'.spawn)
          /\ UNCHANGED << pending_apps, running_apps, log_queue, persistence,
                          control_sessions, storage_sessions >>
      ]_vars

\* A connection without a port was dropped while a reservation was pending.
C7_Witness ==
    /\ IsConnection
    /\ Unwrap(last.id) = UnixEndpoint
    /\ last.mutator = NoMutator
    /\ pending_apps # EmptyMap

\* C8: a request of an application without storage parameters fails with no
\* invocation of retrieve/persist, no attempt to establish the link and the
\* link left as it was.
C8_UnconfiguredFailsUntouched ==
    [][ (nReqs' = nReqs + 1 /\ ~IsSome(Params(last'))) =>
          /\ last'.ret = Err
          /\ ~panicked'
          /\ last'.calls = << >>
          /\ last'.connects = 0
          /\ persistence' = persistence
      ]_vars

\* An unconfigured application was refused while the link existed, and the
\* link is still there.
C8_Witness ==
    /\ IsRequest
    /\ ~IsSome(Params(last))
    /\ last.ret = Err
    /\ IsSome(last.link)
    /\ persistence = last.link

\* C9: every invocation made for an application whose parameters name an
\* encryption key version goes through the encrypting adapter, in either round.
C9_AlwaysEncrypted ==
    (/\ IsRequest
     /\ IsSome(Params(last))
     /\ IsSome(Unwrap(Params(last)).encryption_key_version)) =>
        \A i \in DOMAIN last.calls : last.calls[i].via = "StorageEncryption"

\* An application with a key version was served in the second round, after the
\* link had been established by the first.
C9_Witness ==
    /\ IsRequest
    /\ IsSome(Params(last))
    /\ IsSome(Unwrap(Params(last)).encryption_key_version)
    /\ last.connects = 1
    /\ \E i \in DOMAIN last.calls : last.calls[i].x = 1

\* Why a request did not succeed.
FailureCause(l) ==
    IF ~IsSome(Params(l)) THEN "unconfigured"
    ELSE IF \E i \in 1..l.connects : ~l.connRes[i] THEN "connect"
    ELSE IF \E i \in DOMAIN l.calls : ~l.opRes[i].ok THEN "operation"
    ELSE "none"

\* C10: whatever the cause of the failure (no storage parameters, the link not
\* established, the operation failing), the application is returned the same
\* opaque failure value.
C10_OpaqueFailure ==
    (IsRequest /\ FailureCause(last) # "none") =>
        (~last.panic /\ last.ret = Err)

\* C11: a reservation of an application whose manifest entry has the
\* VirtualMachine kind always fails to launch with the not-implemented error,
\* before a sandbox, a transport pair or a process is created; running is
\* unchanged and no storage session is registered.
C11_VirtualMachineRefused ==
    [][ (/\ nConns' = nConns + 1
         /\ Unwrap(last'.id) \in DOMAIN pending_apps
         /\ pending_apps[Unwrap(last'.id)] \in DOMAIN app_manifest
         /\ app_manifest[pending_apps[Unwrap(last'.id)]].sandbox_type = "VirtualMachine") =>
          /\ IsSome(last'.spawn)
          /\ ~Unwrap(last'.spawn).ok
          /\ Unwrap(last'.spawn).err = "SandboxTypeNotImplemented"
          /\ Unwrap(last'.spawn).created = {}
          /\ last'.mutator = NoMutator
          /\ running_apps' = running_apps
          /\ storage_sessions' = storage_sessions
      ]_vars

\* The connection reserved for the VirtualMachine application has arrived.
C11_Witness ==
    /\ IsConnection
    /\ last.reservation = Some("V")
    /\ Unwrap(last.spawn).err = "SandboxTypeNotImplemented"

\* C13: start_session always returns success, looks nothing up in the manifest
\* (an unknown identifier is reserved like any other), starts no application
\* and changes pending only.
C13_StartSessionOnlyReserves ==
    [][ nStarts' = nStarts + 1 =>
          LET key == port_to_transport_type(Unwrap(last'.session), Unwrap(last'.port_number)) IN
          /\ last'.ret = Ok(<< >>)
          /\ ~panicked'
          /\ pending_apps' = MapInsert(pending_apps, key, Unwrap(last'.app_id))
          /\ UNCHANGED << running_apps, log_queue, persistence, expected_port,
                          control_sessions, storage_sessions, serial, nLaunches >>
      ]_vars

\* An identifier unknown to the manifest has been reserved.
C13_Witness ==
    /\ last.op = "start_session"
    /\ last.app_id = Some("X")
    /\ last.ret.ok
    /\ \E e \in DOMAIN pending_apps : pending_apps[e] = "X"

\* C14: a launch that fails, whatever the reason, aborts that connection only:
\* no session is registered, and running, the log queue, the link, the expected
\* port and every other reservation are as before the launch.
C14_FailedLaunchLeavesRegistry ==
    [][ (nConns' = nConns + 1 /\ IsSome(last'.spawn) /\ ~Unwrap(last'.spawn).ok) =>
          /\ Unwrap(last'.spawn).err \in
                {"AppManifest", "SandboxTypeNotImplemented", "NewSandbox", "NewTransport", "RunSandbox"}
          /\ last'.mutator = NoMutator
          /\ pending_apps' = MapRemove(pending_apps, Unwrap(last'.id))
          /\ UNCHANGED << running_apps, log_queue, persistence, expected_port,
                          control_sessions, storage_sessions, panicked >>
      ]_vars

\* The launch of an unknown application failed while another reservation was
\* pending, and that one is still there.
C14_Witness ==
    /\ IsConnection
    /\ IsSome(last.spawn)
    /\ Unwrap(last.spawn).err = "AppManifest"
    /\ pending_apps # EmptyMap

\* C17: a reservation is used once: the Endpoint of a handled connection is
\* not in pending afterwards, a connection whose Endpoint is not in pending
\* launches nothing, and the launch attempts never outnumber the start_session
\* calls.
C17_ReservationSingleUse ==
    /\ [](nLaunches <= nStarts)
    /\ [][ nConns' = nConns + 1 =>
             /\ Unwrap(last'.id) \notin DOMAIN pending_apps'
             /\ Unwrap(last'.id) \notin DOMAIN pending_apps =>
                    (~IsSome(last'.spawn) /\ nLaunches' = nLaunches)
         ]_vars

\* The Endpoint of a launched application connected again with no new
\* reservation, and nothing was launched.
C17_Witness ==
    /\ IsConnection
    /\ ~IsSome(last.spawn)
    /\ Unwrap(last.id) \in DOMAIN running_apps
    /\ nLaunches = 1
    /\ nStarts = 1

\* C18 as claimed: an entry of running is added only by a consumed reservation
\* whose launch succeeded, and an Endpoint of running keeps its instance for
\* ever: no operation removes or replaces the entry.
C18_RunningNeverReplaced ==
    [][ /\ \A e \in DOMAIN running_apps :
              e \in DOMAIN running_apps' /\ running_apps'[e] = running_apps[e]
        /\ running_apps' # running_apps =>
              (/\ nConns' = nConns + 1
               /\ Unwrap(last'.id) \in DOMAIN pending_apps
               /\ last'.mutator.kind = "storage")
      ]_vars

\* C18 as amended: an entry of running is written only by a consumed
\* reservation whose launch succeeded, and only the entry of that connection's
\* Endpoint; no Endpoint ever leaves running. (A later successful launch on the
\* same Endpoint replaces the instance the Endpoint maps to.)
C18_RunningOnlyGrows ==
    [][ /\ DOMAIN running_apps \subseteq DOMAIN running_apps'
        /\ \A e \in DOMAIN running_apps' :
              (e \notin DOMAIN running_apps \/ running_apps'[e] # running_apps[e]) =>
                  /\ nConns' = nConns + 1
                  /\ Unwrap(last'.id) = e
                  /\ e \in DOMAIN pending_apps
                  /\ e \notin DOMAIN pending_apps'
                  /\ Unwrap(last'.spawn).ok
                  /\ running_apps'[e] = Unwrap(last'.mutator.tee_app)
      ]_vars

\* Two launches succeeded on one Endpoint: the second instance is the entry.
C18_Witness ==
    /\ IsConnection
    /\ last.mutator.kind = "storage"
    /\ serial = 2
    /\ DOMAIN running_apps = {Unwrap(last.id)}
    /\ running_apps[Unwrap(last.id)].serial = 1

\* C19: after start_session(id, p) on a control session, pending maps the
\* Endpoint of the session's address with exactly the port p to id, for every
\* port number of the protocol and both address families.
C19_ExactPort ==
    last.op = "start_session" =>
        LET key == [Unwrap(last.session) EXCEPT !.port = Unwrap(last.port_number)] IN
        /\ key \in DOMAIN pending_apps
        /\ pending_apps[key] = Unwrap(last.app_id)

\* C12: a write_data(k, bytes) from a launched application with no key
\* version whose first persist invocation returns a status calls persist
\* exactly once, with (the application's scope, its domain, k, bytes) on the
\* link itself, and returns that status unchanged, whether the link was
\* present or absent when the request started.
C12_WriteOnceReturnsStatus ==
    (/\ last.op = "write_data"
     /\ IsSome(Params(last))
     /\ ~IsSome(Unwrap(Params(last)).encryption_key_version)
     /\ Len(last.calls) >= 1
     /\ last.opRes[1].ok) =>
        /\ Len(last.calls) = 1
        /\ last.calls[1].method = "persist"
        /\ last.calls[1].via = "CronistaClient"
        /\ last.calls[1].scope = Unwrap(Params(last)).scope
        /\ last.calls[1].domain = Unwrap(Params(last)).domain
        /\ last.calls[1].id = Unwrap(last.cb).id
        /\ last.calls[1].data = Blob
        /\ last.ret = Ok(last.opRes[1].value)
        /\ ~last.panic

\* The link was absent when the write started, was established, and the
\* status Failure that persist returned is what write_data returned.
C12_Witness ==
    /\ last.op = "write_data"
    /\ Unwrap(last.tee_app).app_info.app_name = "A"
    /\ last.link = None
    /\ Len(last.calls) = 1
    /\ last.calls[1].data = Blob
    /\ last.ret = Ok(<< "Failure" >>)

\* C15: a read_data or write_data request ends within the two rounds: it
\* invokes retrieve/persist at most twice and attempts to establish the link
\* at most twice, whatever the link was and whatever the remote calls answer.
C15_AtMostTwoRounds ==
    IsRequest =>
        /\ Len(last.calls) <= 2
        /\ last.connects <= 2
        /\ \A i \in 1..Len(last.calls) : last.calls[i].x \in {0, 1}
        /\ last.panic \/ last.ret # NoRet

\* A request that invoked the operation and attempted a connection.
C15_Witness ==
    /\ IsRequest
    /\ Len(last.calls) = 1
    /\ last.connects = 1
    /\ last.ret.ok

\* C16: when establishing the link fails during a request, the request fails
\* at once: that attempt is its last, no retrieve/persist is invoked after it,
\* it returns the error and the link is absent afterwards. When a link exists,
\* check_persistence makes no connection attempt and leaves the link as it is.
C16_ConnectFailureStops ==
    /\ IsRequest =>
          \A i \in 1..last.connects :
              ~last.connRes[i] =>
                  /\ i = last.connects
                  /\ \A j \in 1..Len(last.calls) : last.calls[j].x <= last.connectRounds[i]
                  /\ last.ret = Err
                  /\ ~last.panic
                  /\ persistence = None
    /\ IsSome(persistence) =>
          \A connRes \in Scripts(BOOLEAN) :
              check_persistence(Locals(persistence), connRes) =
                  [st |-> Locals(persistence), ok |-> TRUE]

\* A request found no link, failed to establish one and returned the error.
C16_Witness ==
    /\ IsRequest
    /\ IsSome(Params(last))
    /\ last.link = None
    /\ last.connects = 1
    /\ ~last.connRes[1]
    /\ last.calls = << >>
    /\ last.ret = Err
    /\ persistence = None

\* C20: with several applications running on the one link, every
\* retrieve/persist made for a request of a storage session carries the scope,
\* the domain and the encryption choice of the manifest entry that session's
\* application was launched with.
C20_OwnParameters ==
    IsRequest =>
        /\ Unwrap(last.tee_app) \in storage_sessions
        /\ Unwrap(last.tee_app).app_info = app_manifest[Unwrap(last.tee_app).app_info.app_name]
        /\ \A i \in 1..Len(last.calls) :
              /\ IsSome(Params(last))
              /\ last.calls[i].scope = Unwrap(Params(last)).scope
              /\ last.calls[i].domain = Unwrap(Params(last)).domain
              /\ last.calls[i].via = Cronista(Unwrap(Params(last)))

\* Two applications are running, the link was there when the second asked,
\* and its invocation carries its own domain and the encrypting adapter.
C20_Witness ==
    /\ IsRequest
    /\ \E a, b \in storage_sessions : a.app_info.app_name # b.app_info.app_name
    /\ Unwrap(last.tee_app).app_info.app_name = "B"
    /\ last.link # None
    /\ Len(last.calls) = 1
    /\ last.calls[1].domain = "b"
    /\ last.calls[1].via = "StorageEncryption"

====
